---------------------------- MODULE Spec2Model ----------------------------
(***************************************************************************)
(* AI-Grader: AIModel.evaluate (src/ai_grader/core/model.py) with its      *)
(* three scorers and the text utilities of src/ai_grader/utils.            *)
(*                                                                         *)
(* Texts are sequences of one-character strings.  Messages (feedback,      *)
(* exception texts, issue descriptions) are sequences of fragments, so     *)
(* that Python's `needle in message` and `message.startswith(prefix)` are  *)
(* decided on the fragments.  Scores are in hundredths (5.0 is 500).       *)
(***************************************************************************)
EXTENDS Integers, Sequences, FiniteSets, TLC

VARIABLES
    pc,                   \* position inside AIModel.evaluate
    grading_input,        \* the caller's GradingInput
    processed_input,      \* result of _preprocess_input
    sub_scores_list,      \* evaluate's locals (model.py:135-139)
    feedback_list,
    total_score_achieved,
    total_max_score,
    errors_list,
    output,               \* the GradingOutput returned, once returned
    raised,               \* the exception that left evaluate, if one did
    calls,                \* scorers invoked so far, in order
    returned,             \* what each scorer call produced
    collab,               \* what each collaborator did when it was used
    ai_model,             \* app.py: whether the AIModel was loaded at start-up
    request,              \* the form of the /evaluate request being handled, if any
    response,             \* the handler's response, once given
    _tool,                \* text_utils.py:29, the shared LanguageTool instance
    constructed,          \* the LanguageTool constructor's invocations, in order
    checked,              \* the tool.check invocations, in order
    thread                \* each thread's position in check_grammar_spelling

handlerVars == <<ai_model, request, response>>

toolVars == <<_tool, constructed, checked, thread>>

evaluateVars == <<pc, grading_input, processed_input, sub_scores_list, feedback_list,
                  total_score_achieved, total_max_score, errors_list, output, raised,
                  calls, returned, collab>>

vars == <<evaluateVars, handlerVars, toolVars>>

-----------------------------------------------------------------------------
(* Bounds of the model                                                     *)

MaxWords == 2
MaxIssueCount == 9
MaxThreads == 2            \* threads that use the grammar tool concurrently
MaxCalls == 2              \* calls of check_grammar_spelling by each of them
MaxSequentialCalls == 4    \* calls of check_grammar_spelling made in a row
MaxTextLen == 3            \* characters of a text given to the normalizer

-----------------------------------------------------------------------------
(* Python values                                                           *)

\* Optional[str]: None or a str
NoneText == [k |-> "none", v |-> <<>>]
Str(t) == [k |-> "str", v |-> t]

\* int, None or float('inf') (app.py:77) as a word-count bound
NoneInt == [k |-> "none", v |-> 0]
IntVal(n) == [k |-> "int", v |-> n]
InfVal == [k |-> "inf", v |-> 0]

\* Optional[X]: None is <<>>, a value x is <<x>>
None == <<>>
Some(x) == <<x>>

RECURSIVE Sum(_)
Sum(s) == IF s = <<>> THEN 0 ELSE s[1] + Sum(Tail(s))

\* sep.join(parts) on messages
RECURSIVE Join(_, _)
Join(parts, sep) ==
    IF parts = <<>> THEN <<>>
    ELSE IF Len(parts) = 1 THEN parts[1]
    ELSE parts[1] \o <<sep>> \o Join(Tail(parts), sep)

\* `needle in message`, for a needle that is one fragment
Contains(message, needle) == \E i \in 1..Len(message) : message[i] = needle

-----------------------------------------------------------------------------
(* utils/text_utils.py                                                     *)

IsSpace(c) == c \in {" ", "\t"}

Lower(c) == IF c = "B" THEN "b" ELSE c

\* str.strip()
RECURSIVE LStrip(_)
LStrip(t) == IF t # <<>> /\ IsSpace(t[1]) THEN LStrip(Tail(t)) ELSE t

RECURSIVE RStrip(_)
RStrip(t) ==
    IF t # <<>> /\ IsSpace(t[Len(t)]) THEN RStrip(SubSeq(t, 1, Len(t) - 1)) ELSE t

\* re.sub(r'\s+', ' ', text)
RECURSIVE Collapse(_)
Collapse(t) ==
    IF t = <<>> THEN <<>>
    ELSE IF IsSpace(t[1])
         THEN <<" ">> \o Collapse(LStrip(t))
         ELSE <<t[1]>> \o Collapse(Tail(t))

\* variant: the text not stripped
normalize_text_NoStrip(text) ==
    IF text.k = "none" THEN NoneText
    ELSE Str(Collapse([i \in 1..Len(text.v) |-> Lower(text.v[i])]))

normalize_text(text) ==
    IF text.k = "none" THEN NoneText
    ELSE Str(Collapse(RStrip(LStrip([i \in 1..Len(text.v) |-> Lower(text.v[i])]))))

\* len(text.split()): the number of maximal runs of non-whitespace
RECURSIVE Words(_)
Words(t) ==
    IF t = <<>> THEN 0
    ELSE IF IsSpace(t[1]) THEN Words(Tail(t))
    ELSE IF Len(t) = 1 \/ IsSpace(t[2]) THEN 1 + Words(Tail(t))
    ELSE Words(Tail(t))

count_words(text) == IF text.k = "none" THEN 0 ELSE Words(text.v)

\* Python truthiness of an Optional[str], and str.isspace()
Truthy(text) == text.k = "str" /\ text.v # <<>>
isspace(text) == text.v # <<>> /\ \A i \in 1..Len(text.v) : IsSpace(text.v[i])

-----------------------------------------------------------------------------
(* core/schemas.py                                                         *)

CriterionScore(criterion_name, score, max_score, feedback) ==
    [criterion_name |-> criterion_name, score |-> score,
     max_score |-> max_score, feedback |-> feedback]

WordCountRange(min_words, max_words) ==
    [min_words |-> min_words, max_words |-> max_words]

GradingInput(question_text, student_answer, reference_answer, word_count_requirement) ==
    [question_text |-> question_text, student_answer |-> student_answer,
     reference_answer |-> reference_answer,
     evaluation_criteria |-> None,
     word_count_requirement |-> word_count_requirement,
     additional_metadata |-> None]

GradingOutput(total_score, sub_scores, automated_feedback, needs_teacher_review, errors) ==
    [total_score |-> total_score, sub_scores |-> sub_scores,
     automated_feedback |-> automated_feedback,
     needs_teacher_review |-> needs_teacher_review, errors |-> errors]

-----------------------------------------------------------------------------
(* What a call produces: a value (an Optional[CriterionScore]) or an       *)
(* exception carrying a message.                                           *)

NotCalled == [k |-> "notcalled", cs |-> None, msg |-> <<>>]
Return(cs) == [k |-> "value", cs |-> Some(cs), msg |-> <<>>]
ReturnNone == [k |-> "value", cs |-> None, msg |-> <<>>]
Raise(msg) == [k |-> "raise", cs |-> None, msg |-> msg]

\* The embedding collaborator of _calculate_relevance_score: both encode
\* calls and cosine_similarity succeed with a similarity (in hundredths),
\* or one of them raises.
\* made is the number of encode calls that were started (model.py:48-49).
Similarity(sim) == [k |-> "sim", sim |-> sim, msg |-> <<>>, made |-> 2]
\* the first encode call (model.py:48) raises: line 49 is never reached
EncodeRaises(msg) == [k |-> "raise", sim |-> 0, msg |-> msg, made |-> 1]
\* the second encode call, a reshape or cosine_similarity (model.py:49-55)
\* raises
LaterRaises(msg) == [k |-> "raise", sim |-> 0, msg |-> msg, made |-> 2]
NoEncode == [k |-> "unused", sim |-> 0, msg |-> <<>>, made |-> 0]

\* check_grammar_spelling as _calculate_grammar_spelling_score sees it:
\* a pair (issues, issue_count), or an exception.
CheckReply(issues, issue_count) ==
    [k |-> "reply", issues |-> issues, issue_count |-> issue_count, msg |-> <<>>]
CheckRaises(msg) == [k |-> "raise", issues |-> <<>>, issue_count |-> 0, msg |-> msg]
NoCheck == [k |-> "unused", issues |-> <<>>, issue_count |-> 0, msg |-> <<>>]

\* What the collaborators did during one evaluate call: the outcome of each,
\* and the texts each was called with, in call order.
NoCollaboration ==
    [encode |-> NoEncode, check |-> NoCheck, encode_calls |-> <<>>, check_calls |-> <<>>]

-----------------------------------------------------------------------------
(* utils/text_utils.py: what check_grammar_spelling returns once the text  *)
(* is neither empty nor whitespace                                         *)

\* text_utils.py:81, the message built from str(e)
SentinelMessage(e) ==
    <<"LanguageTool Error", ":", " ", "Could not perform grammar/spelling check",
      " due to: ">> \o e
        \o <<". Please ensure Java is installed and language model can be downloaded.">>

\* text_utils.py:77-82: the tool could not be created, or tool.check raised
CheckFailed(e) == CheckReply(<<SentinelMessage(e)>>, 1)

\* text_utils.py:63-76: one description per match, and len(matches)
CheckSucceeded(matches) == CheckReply(matches, Len(matches))

-----------------------------------------------------------------------------
(* AIModel._preprocess_input                                               *)

\* variant: additional_metadata not carried over
_preprocess_input_DropsMetadata(gi) ==
    [question_text |-> normalize_text(gi.question_text),
     student_answer |-> normalize_text(gi.student_answer),
     reference_answer |-> IF Truthy(gi.reference_answer)
                          THEN normalize_text(gi.reference_answer)
                          ELSE NoneText,
     evaluation_criteria |-> gi.evaluation_criteria,
     word_count_requirement |-> gi.word_count_requirement,
     additional_metadata |-> None]

_preprocess_input(gi) ==
    [question_text |-> normalize_text(gi.question_text),
     student_answer |-> normalize_text(gi.student_answer),
     reference_answer |-> IF Truthy(gi.reference_answer)
                          THEN normalize_text(gi.reference_answer)
                          ELSE NoneText,
     evaluation_criteria |-> gi.evaluation_criteria,
     word_count_requirement |-> gi.word_count_requirement,
     additional_metadata |-> gi.additional_metadata]

-----------------------------------------------------------------------------
(* AIModel._calculate_relevance_score                                      *)

FbReferenceMissing ==
    <<"Reference answer not provided", ". Relevance could not be calculated.">>
FbRelevanceEmpty ==
    <<"Student answer is empty", ". Relevance could not be calculated.">>
FbRelevanceOk == <<"Relevance score based on semantic similarity.">>
FbRelevanceError(e) == <<"Error calculating relevance", ": ">> \o e

\* round(similarity * 5, 2), similarity given in hundredths
mapped_score(similarity) == similarity * 5

NeedsEncode_IgnoresEmptyAnswer(pin) == Truthy(pin.reference_answer)

NeedsEncode(pin) == Truthy(pin.reference_answer) /\ Truthy(pin.student_answer)

\* model.py:48-49: the texts similarity_model.encode is called with, the
\* student answer first; the second call is made only if the first returns
EncodeCalls(pin, encode) ==
    IF encode.made = 0 THEN <<>>
    ELSE IF encode.made = 1 THEN <<pin.student_answer>>
    ELSE <<pin.student_answer, pin.reference_answer>>

\* variant: the empty-answer test placed before the missing-reference test
RelevanceScore_EmptyAnswerFirst(pin, encode) ==
    IF ~Truthy(pin.student_answer)
    THEN Return(CriterionScore("Relevance", 0, 500, FbRelevanceEmpty))
    ELSE IF ~Truthy(pin.reference_answer)
    THEN Return(CriterionScore("Relevance", 0, 500, FbReferenceMissing))
    ELSE IF encode.k = "sim"
    THEN Return(CriterionScore("Relevance", mapped_score(encode.sim), 500, FbRelevanceOk))
    ELSE Return(CriterionScore("Relevance", 0, 500, FbRelevanceError(encode.msg)))

_calculate_relevance_score(pin, encode) ==
    IF ~Truthy(pin.reference_answer)
    THEN Return(CriterionScore("Relevance", 0, 500, FbReferenceMissing))
    ELSE IF ~Truthy(pin.student_answer)
    THEN Return(CriterionScore("Relevance", 0, 500, FbRelevanceEmpty))
    ELSE IF encode.k = "sim"
    THEN Return(CriterionScore("Relevance", mapped_score(encode.sim), 500, FbRelevanceOk))
    ELSE Return(CriterionScore("Relevance", 0, 500, FbRelevanceError(encode.msg)))

-----------------------------------------------------------------------------
(* AIModel._calculate_grammar_spelling_score                               *)

FbGrammarEmpty ==
    <<"Student answer is empty", ". Grammar and spelling could not be assessed.">>
\* variant: the reason of the failure left out of the feedback
FbCouldNotCheck_NoReason(e) == <<"Could not perform grammar/spelling check", ".">>

FbCouldNotCheck(e) == <<"Could not perform grammar/spelling check", ": ">> \o e
FbNoIssues == <<"No grammar or spelling issues found.">>
FbFound(issue_count) ==
    <<"Found ", ToString(issue_count), " grammar/spelling issue(s).">>

\* UnboundLocalError for `feedback` at the return statement (model.py:126)
UnboundFeedback ==
    <<"cannot access local variable 'feedback' where it is not associated with a value">>

\* issues[0].startswith("LanguageTool Error:")
StartsWithSentinel(issue) ==
    Len(issue) >= 2 /\ issue[1] = "LanguageTool Error" /\ issue[2] = ":"

\* variant: the upper end of each bucket excluded
BucketScore_ExclusiveBounds(issue_count) ==
    IF issue_count = 0 THEN 500
    ELSE IF issue_count < 2 THEN 400
    ELSE IF issue_count < 4 THEN 300
    ELSE IF issue_count < 6 THEN 200
    ELSE IF issue_count < 8 THEN 100
    ELSE 0

\* the if/elif chain of model.py:96-109
BucketScore(issue_count) ==
    IF issue_count = 0 THEN 500
    ELSE IF issue_count <= 2 THEN 400
    ELSE IF issue_count <= 4 THEN 300
    ELSE IF issue_count <= 6 THEN 200
    ELSE IF issue_count <= 8 THEN 100
    ELSE 0

\* issues[:3]
FirstThree(issues) == SubSeq(issues, 1, IF Len(issues) < 3 THEN Len(issues) ELSE 3)

\* model.py:111-119: score and feedback once issue_count > 0
GrammarOverride(issues, issue_count) ==
    IF issues # <<>>
    THEN IF StartsWithSentinel(issues[1])
         THEN [score |-> 0, feedback |-> issues[1]]
         ELSE [score |-> BucketScore(issue_count),
               feedback |-> FbFound(issue_count) \o <<" First few issues: ">>
                            \o Join(FirstThree(issues), "; ")]
    ELSE [score |-> BucketScore(issue_count), feedback |-> FbFound(issue_count)]

NeedsCheck(pin) == Truthy(pin.student_answer) /\ ~isspace(pin.student_answer)

\* model.py:86: the texts check_grammar_spelling is called with
CheckCalls(pin, check) ==
    IF check.k = "unused" THEN <<>> ELSE <<pin.student_answer>>

_calculate_grammar_spelling_score(pin, check) ==
    IF ~Truthy(pin.student_answer) \/ isspace(pin.student_answer)
    THEN Return(CriterionScore("Grammar and Spelling", 0, 500, FbGrammarEmpty))
    ELSE IF check.k = "raise"
    THEN Return(CriterionScore("Grammar and Spelling", 0, 500, FbCouldNotCheck(check.msg)))
    ELSE IF check.issue_count > 0
    THEN LET r == GrammarOverride(check.issues, check.issue_count)
         IN  Return(CriterionScore("Grammar and Spelling", r.score, 500, r.feedback))
    ELSE IF check.issue_count = 0
    THEN Return(CriterionScore("Grammar and Spelling", 500, 500, FbNoIssues))
    ELSE Raise(UnboundFeedback)

-----------------------------------------------------------------------------
(* AIModel._check_word_count                                               *)

FbInvalidRequirement ==
    <<"Invalid word count requirement", " provided (e.g., min/max not set, negative, or min > max).">>

\* str() of a bound inside an f-string
Fmt(b) == IF b.k = "inf" THEN "inf" ELSE ToString(b.v)

\* a < b and a <= b on ints and float('inf')
Less(a, b) ==
    IF a.k = "inf" THEN FALSE ELSE IF b.k = "inf" THEN TRUE ELSE a.v < b.v
LessEq(a, b) == ~Less(b, a)

\* variant: min > max not tested
InvalidRequirement_AllowsInverted(min_words, max_words) ==
    \/ min_words.k = "none"
    \/ max_words.k = "none"
    \/ Less(min_words, IntVal(0))
    \/ Less(max_words, IntVal(0))

\* model.py:234
InvalidRequirement(min_words, max_words) ==
    \/ min_words.k = "none"
    \/ max_words.k = "none"
    \/ Less(min_words, IntVal(0))
    \/ Less(max_words, IntVal(0))
    \/ Less(max_words, min_words)

FbWithin(word_count, min_words, max_words) ==
    <<"Word count (", ToString(word_count), ") is within the required range (",
      Fmt(min_words), "-", Fmt(max_words), " words).">>
FbBelow(word_count, min_words) ==
    <<"Word count (", ToString(word_count), ") is below the minimum requirement of ",
      Fmt(min_words), " words.">>
FbExceeds(word_count, max_words) ==
    <<"Word count (", ToString(word_count), ") exceeds the maximum limit of ",
      Fmt(max_words), " words.">>

\* variant: the two ends of the range excluded
WordCountVerdict_ExclusiveBounds(student_answer_text, min_words, max_words) ==
    LET word_count == count_words(student_answer_text)
    IN  IF Less(min_words, IntVal(word_count)) /\ Less(IntVal(word_count), max_words)
        THEN [score |-> 500, feedback |-> FbWithin(word_count, min_words, max_words)]
        ELSE IF LessEq(IntVal(word_count), min_words)
        THEN [score |-> 250, feedback |-> FbBelow(word_count, min_words)]
        ELSE [score |-> 250, feedback |-> FbExceeds(word_count, max_words)]

\* model.py:243-262
WordCountVerdict(student_answer_text, min_words, max_words) ==
    LET word_count == count_words(student_answer_text)
        base == IF LessEq(min_words, IntVal(word_count)) /\ LessEq(IntVal(word_count), max_words)
                THEN [score |-> 500, feedback |-> FbWithin(word_count, min_words, max_words)]
                ELSE IF Less(IntVal(word_count), min_words)
                THEN [score |-> 250, feedback |-> FbBelow(word_count, min_words)]
                ELSE [score |-> 250, feedback |-> FbExceeds(word_count, max_words)]
    IN  IF ~Truthy(student_answer_text) /\ Less(IntVal(0), min_words)
        THEN [base EXCEPT !.feedback = @ \o <<" The answer is empty.">>]
        ELSE base

\* variant: the requirement scored without being validated
_check_word_count_ScoresInvalid(pin) ==
    IF pin.word_count_requirement = None
    THEN ReturnNone
    ELSE LET min_words == pin.word_count_requirement[1].min_words
             max_words == pin.word_count_requirement[1].max_words
             student_answer_text ==
                 IF Truthy(pin.student_answer) THEN pin.student_answer ELSE Str(<<>>)
             r == WordCountVerdict(student_answer_text, min_words, max_words)
         IN  Return(CriterionScore("Word Count Adherence", r.score, 500, r.feedback))

_check_word_count(pin) ==
    IF pin.word_count_requirement = None
    THEN ReturnNone
    ELSE LET min_words == pin.word_count_requirement[1].min_words
             max_words == pin.word_count_requirement[1].max_words
         IN  IF InvalidRequirement(min_words, max_words)
             THEN Return(CriterionScore("Word Count Adherence", 0, 500, FbInvalidRequirement))
             ELSE LET student_answer_text ==
                          IF Truthy(pin.student_answer) THEN pin.student_answer ELSE Str(<<>>)
                      r == WordCountVerdict(student_answer_text, min_words, max_words)
                  IN  Return(CriterionScore("Word Count Adherence", r.score, 500, r.feedback))

-----------------------------------------------------------------------------
(* AIModel.evaluate: the aggregation of each guarded block.  L holds the   *)
(* locals of model.py:135-139.                                             *)

Locals == [sub_scores_list |-> sub_scores_list, feedback_list |-> feedback_list,
           total_score_achieved |-> total_score_achieved,
           total_max_score |-> total_max_score, errors_list |-> errors_list]

InitialLocals == [sub_scores_list |-> <<>>, feedback_list |-> <<>>,
                  total_score_achieved |-> 0, total_max_score |-> 0,
                  errors_list |-> <<>>]

\* f"Critical error in {what}: {str(e)}"
CriticalError(what, e) == <<what, ": ">> \o e

\* variant: the empty-answer feedback flagged as well
IsRelevanceError_FlagsEmptyAnswer(feedback) ==
    \/ Contains(feedback, "Error calculating relevance")
    \/ Contains(feedback, "Reference answer not provided")
    \/ Contains(feedback, "Student answer is empty")

\* model.py:151-152
IsRelevanceError(feedback) ==
    \/ Contains(feedback, "Error calculating relevance")
    \/ Contains(feedback, "Reference answer not provided")

\* model.py:171-172
IsGrammarError(feedback) ==
    \/ Contains(feedback, "LanguageTool Error")
    \/ Contains(feedback, "Could not perform grammar/spelling check")

\* model.py:190
IsWordCountError(feedback) == Contains(feedback, "Invalid word count requirement")

\* model.py:145-153
RelevanceReturned(L, obj) ==
    IF obj = None THEN L
    ELSE LET o == obj[1] IN
         [L EXCEPT
            !.sub_scores_list = Append(@, o),
            !.total_score_achieved = @ + o.score,
            !.total_max_score = @ + o.max_score,
            !.feedback_list = IF o.feedback # <<>>
                              THEN Append(@, <<"Relevance: ">> \o o.feedback) ELSE @,
            !.errors_list = IF IsRelevanceError(o.feedback)
                            THEN Append(@, o.feedback) ELSE @]

\* variant: the fault message not recorded in errors_list
RelevanceFaulted_NotFlagged(L, e) ==
    LET error_msg == CriticalError("Critical error in relevance scoring", e) IN
    [L EXCEPT
       !.feedback_list = Append(@, error_msg),
       !.sub_scores_list = Append(@, CriterionScore("Relevance", 0, 500, error_msg)),
       !.total_max_score = @ + 500]

\* model.py:154-160
RelevanceFaulted(L, e) ==
    LET error_msg == CriticalError("Critical error in relevance scoring", e) IN
    [L EXCEPT
       !.errors_list = Append(@, error_msg),
       !.feedback_list = Append(@, error_msg),
       !.sub_scores_list = Append(@, CriterionScore("Relevance", 0, 500, error_msg)),
       !.total_max_score = @ + 500]

\* variant: the score not added to the running total
GrammarReturned_TotalNotUpdated(L, obj) ==
    LET o == obj[1] IN
    [L EXCEPT
       !.sub_scores_list = Append(@, o),
       !.total_max_score = @ + o.max_score,
       !.feedback_list = IF o.feedback # <<>>
                         THEN Append(@, <<"Grammar/Spelling: ">> \o o.feedback) ELSE @,
       !.errors_list = IF IsGrammarError(o.feedback)
                       THEN Append(@, o.feedback) ELSE @]

\* model.py:164-173
GrammarReturned(L, obj) ==
    LET o == obj[1] IN
    [L EXCEPT
       !.sub_scores_list = Append(@, o),
       !.total_score_achieved = @ + o.score,
       !.total_max_score = @ + o.max_score,
       !.feedback_list = IF o.feedback # <<>>
                         THEN Append(@, <<"Grammar/Spelling: ">> \o o.feedback) ELSE @,
       !.errors_list = IF IsGrammarError(o.feedback)
                       THEN Append(@, o.feedback) ELSE @]

\* variant: the handler starts the result lists afresh
GrammarFaulted_DropsEarlierResults(L, e) ==
    LET error_msg == CriticalError("Critical error in grammar/spelling scoring", e) IN
    [L EXCEPT
       !.errors_list = <<error_msg>>,
       !.feedback_list = <<error_msg>>,
       !.sub_scores_list = <<CriterionScore("Grammar and Spelling", 0, 500, error_msg)>>,
       !.total_score_achieved = 0,
       !.total_max_score = 500]

\* model.py:174-179
GrammarFaulted(L, e) ==
    LET error_msg == CriticalError("Critical error in grammar/spelling scoring", e) IN
    [L EXCEPT
       !.errors_list = Append(@, error_msg),
       !.feedback_list = Append(@, error_msg),
       !.sub_scores_list =
            Append(@, CriterionScore("Grammar and Spelling", 0, 500, error_msg)),
       !.total_max_score = @ + 500]

\* model.py:184-191
WordCountReturned(L, obj) ==
    IF obj = None THEN L
    ELSE LET o == obj[1] IN
         [L EXCEPT
            !.sub_scores_list = Append(@, o),
            !.total_score_achieved = @ + o.score,
            !.total_max_score = @ + o.max_score,
            !.feedback_list = IF o.feedback # <<>>
                              THEN Append(@, <<"Word Count: ">> \o o.feedback) ELSE @,
            !.errors_list = IF IsWordCountError(o.feedback)
                            THEN Append(@, o.feedback) ELSE @]

\* variant: the placeholder added whether or not a requirement was given
WordCountFaulted_AlwaysPlaceholder(L, e, gi) ==
    LET error_msg == CriticalError("Critical error in word count checking", e) IN
    [L EXCEPT
       !.errors_list = Append(@, error_msg),
       !.feedback_list = Append(@, error_msg),
       !.sub_scores_list =
            Append(@, CriterionScore("Word Count Adherence", 0, 500, error_msg)),
       !.total_max_score = @ + 500]

\* variant: the fault recorded in errors_list only, with no feedback line
WordCountFaulted_NoFeedbackLine(L, e, gi) ==
    LET error_msg == CriticalError("Critical error in word count checking", e)
        flagged == [L EXCEPT !.errors_list = Append(@, error_msg)]
    IN  IF gi.word_count_requirement # None
        THEN [flagged EXCEPT
                !.sub_scores_list =
                     Append(@, CriterionScore("Word Count Adherence", 0, 500, error_msg)),
                !.total_max_score = @ + 500]
        ELSE flagged

\* model.py:192-199; gi is the original grading_input
WordCountFaulted(L, e, gi) ==
    LET error_msg == CriticalError("Critical error in word count checking", e)
        flagged == [L EXCEPT !.errors_list = Append(@, error_msg),
                             !.feedback_list = Append(@, error_msg)]
    IN  IF gi.word_count_requirement # None
        THEN [flagged EXCEPT
                !.sub_scores_list =
                     Append(@, CriterionScore("Word Count Adherence", 0, 500, error_msg)),
                !.total_max_score = @ + 500]
        ELSE flagged

FbFallback == <<"Evaluation complete. No specific feedback items generated.">>

\* model.py:203-205
CompileFeedback(feedback_lines) ==
    IF feedback_lines = <<>> THEN FbFallback ELSE Join(feedback_lines, "\n")

\* model.py:208-210
NeedsTeacherReview(errors) == errors # <<>>

\* variant: the list returned even when it is empty
ErrorsOrNone_AlwaysList(errors) == Some(errors)

\* model.py:222
ErrorsOrNone(errors) == IF errors # <<>> THEN Some(errors) ELSE None

\* model.py:217-223
BuildOutput(L) ==
    GradingOutput(L.total_score_achieved, L.sub_scores_list,
                  CompileFeedback(L.feedback_list),
                  NeedsTeacherReview(L.errors_list),
                  ErrorsOrNone(L.errors_list))

-----------------------------------------------------------------------------
(* Inputs and collaborator behaviours                                      *)

Questions == {Str(<<"B", "a">>)}

StudentAnswers ==
    {Str(<<>>), Str(<<" ", "\t">>), Str(<<"B">>), Str(<<"a", " ", " ", "B">>)}

ReferenceAnswers == {NoneText, Str(<<>>), Str(<<" ">>), Str(<<"B", " ", "a">>)}

MinBounds == {NoneInt} \cup {IntVal(n) : n \in -1..MaxWords}
MaxBounds == MinBounds \cup {InfVal}

Requirements ==
    {None} \cup {Some(WordCountRange(a, b)) : a \in MinBounds, b \in MaxBounds}

GradingInputs ==
    {GradingInput(q, a, r, w) : q \in Questions, a \in StudentAnswers,
                                r \in ReferenceAnswers, w \in Requirements}

\* str(e) of the exceptions collaborators and scorers raise
ExcMsgs == {<<"Embedding failed">>, <<"Tool critical failure">>}

Similarities == {-20, 72, 100}

EncodeOutcomes ==
    {Similarity(x) : x \in Similarities}
        \cup {EncodeRaises(m) : m \in ExcMsgs} \cup {LaterRaises(m) : m \in ExcMsgs}

\* issue descriptions: a finding, the failure sentinel of
\* check_grammar_spelling (text_utils.py:81), and a finding that quotes the
\* words of the sentinel
IssueFinding == <<"Issue: 'Possible spelling mistake'.">>
IssueSentinel ==
    <<"LanguageTool Error", ":", " ", "Could not perform grammar/spelling check",
      " due to: Tool init failed.">>
IssueQuoting == <<"Issue: 'Unknown phrase ", "LanguageTool Error", "'.">>

IssueLists ==
    {<<>>, <<IssueFinding>>, <<IssueSentinel>>, <<IssueQuoting>>,
     <<IssueFinding, IssueSentinel>>,
     <<IssueFinding, IssueFinding, IssueFinding, IssueFinding>>}

\* what tool.check finds in a text: the descriptions of its matches
MatchLists == {<<>>, <<IssueFinding>>, <<IssueFinding, IssueQuoting, IssueFinding>>}

\* check_grammar_spelling as coded (a reply built from the matches, or the
\* failure sentinel with count 1), and as a stand-in of it may behave (any
\* reply, or an exception)
CheckOutcomes ==
    {CheckReply(i, c) : i \in IssueLists, c \in -1..MaxIssueCount}
        \cup {CheckRaises(m) : m \in ExcMsgs}
        \cup {CheckFailed(m) : m \in ExcMsgs}
        \cup {CheckSucceeded(ms) : ms \in MatchLists}

\* str(e) of a fault no scorer provides for
FaultMsgs == {<<"unexpected failure">>, <<"out of memory">>}

\* an unexpected fault of a step (None: the step runs as coded)
Faulting(F) == {None} \cup {Some(m) : m \in F}

\* the grammar tool as a stand-in replaces it: no state of its own
ToolUnused ==
    /\ _tool = None
    /\ constructed = <<>>
    /\ checked = <<>>
    /\ thread = <<>>

-----------------------------------------------------------------------------
(* AIModel.evaluate, step by step                                          *)

SetLocals(L) ==
    /\ sub_scores_list' = L.sub_scores_list
    /\ feedback_list' = L.feedback_list
    /\ total_score_achieved' = L.total_score_achieved
    /\ total_max_score' = L.total_max_score
    /\ errors_list' = L.errors_list

Init ==
    /\ pc = "start"
    /\ grading_input \in GradingInputs
    /\ processed_input = None
    /\ sub_scores_list = <<>>
    /\ feedback_list = <<>>
    /\ total_score_achieved = 0
    /\ total_max_score = 0
    /\ errors_list = <<>>
    /\ output = None
    /\ raised = None
    /\ calls = <<>>
    /\ returned = [Relevance |-> NotCalled, Grammar |-> NotCalled, WordCount |-> NotCalled]
    /\ collab = NoCollaboration
    /\ ai_model = TRUE
    /\ request = None
    /\ response = None
    /\ ToolUnused

\* model.py:133-139.  _preprocess_input runs outside every try block: an
\* exception in it leaves evaluate.
Preprocess(F) ==
    /\ pc = "start"
    /\ \E f \in Faulting(F) :
          IF f # None
          THEN /\ raised' = f
               /\ pc' = "done"
               /\ UNCHANGED <<processed_input, sub_scores_list, feedback_list,
                              total_score_achieved, total_max_score, errors_list>>
          ELSE /\ processed_input' = Some(_preprocess_input(grading_input))
               /\ SetLocals(InitialLocals)
               /\ pc' = "relevance"
               /\ UNCHANGED raised
    /\ UNCHANGED <<grading_input, output, calls, returned, collab>>
    /\ UNCHANGED <<handlerVars, toolVars>>

\* model.py:142-160
RelevanceStep(F) ==
    /\ pc = "relevance"
    /\ \E f \in Faulting(F) :
       \E enc \in IF f = None /\ NeedsEncode(processed_input[1])
                  THEN EncodeOutcomes ELSE {NoEncode} :
          LET res == IF f # None THEN Raise(f[1])
                     ELSE _calculate_relevance_score(processed_input[1], enc)
          IN  /\ SetLocals(IF res.k = "raise"
                           THEN RelevanceFaulted(Locals, res.msg)
                           ELSE RelevanceReturned(Locals, res.cs))
              /\ returned' = [returned EXCEPT !.Relevance = res]
              /\ collab' = [collab EXCEPT !.encode = enc,
                                          !.encode_calls =
                                              EncodeCalls(processed_input[1], enc)]
    /\ calls' = Append(calls, "Relevance")
    /\ pc' = "grammar"
    /\ UNCHANGED <<grading_input, processed_input, output, raised>>
    /\ UNCHANGED <<handlerVars, toolVars>>

\* model.py:162-179
GrammarStep(F) ==
    /\ pc = "grammar"
    /\ \E f \in Faulting(F) :
       \E chk \in IF f = None /\ NeedsCheck(processed_input[1])
                  THEN CheckOutcomes ELSE {NoCheck} :
          LET res == IF f # None THEN Raise(f[1])
                     ELSE _calculate_grammar_spelling_score(processed_input[1], chk)
          IN  /\ SetLocals(IF res.k = "raise"
                           THEN GrammarFaulted(Locals, res.msg)
                           ELSE GrammarReturned(Locals, res.cs))
              /\ returned' = [returned EXCEPT !.Grammar = res]
              /\ collab' = [collab EXCEPT !.check = chk,
                                          !.check_calls =
                                              CheckCalls(processed_input[1], chk)]
    /\ calls' = Append(calls, "Grammar")
    /\ pc' = "wordcount"
    /\ UNCHANGED <<grading_input, processed_input, output, raised>>
    /\ UNCHANGED <<handlerVars, toolVars>>

\* model.py:181-199
WordCountStep(F) ==
    /\ pc = "wordcount"
    /\ \E f \in Faulting(F) :
          LET res == IF f # None THEN Raise(f[1])
                     ELSE _check_word_count(processed_input[1])
          IN  /\ SetLocals(IF res.k = "raise"
                           THEN WordCountFaulted(Locals, res.msg, grading_input)
                           ELSE WordCountReturned(Locals, res.cs))
              /\ returned' = [returned EXCEPT !.WordCount = res]
    /\ calls' = Append(calls, "WordCount")
    /\ pc' = "compile"
    /\ UNCHANGED <<grading_input, processed_input, output, raised, collab>>
    /\ UNCHANGED <<handlerVars, toolVars>>

\* model.py:202-223
Compile ==
    /\ pc = "compile"
    /\ output' = Some(BuildOutput(Locals))
    /\ pc' = "done"
    /\ UNCHANGED <<grading_input, processed_input, sub_scores_list, feedback_list,
                   total_score_achieved, total_max_score, errors_list, raised,
                   calls, returned, collab>>
    /\ UNCHANGED <<handlerVars, toolVars>>

\* evaluate in an environment where any step may fault unexpectedly
Next ==
    \/ Preprocess(FaultMsgs)
    \/ RelevanceStep(FaultMsgs)
    \/ GrammarStep(FaultMsgs)
    \/ WordCountStep(FaultMsgs)
    \/ Compile

Spec == Init /\ [][Next]_vars

\* evaluate with the scorers and the normalizer behaving as coded
NextCoded ==
    \/ Preprocess({})
    \/ RelevanceStep({})
    \/ GrammarStep({})
    \/ WordCountStep({})
    \/ Compile

SpecCoded == Init /\ [][NextCoded]_vars

-----------------------------------------------------------------------------
(* AIModel.evaluate on every short text: each text field in turn ranges    *)
(* over the texts of up to MaxTextLen characters (and None), with the      *)
(* other fields all given or all left out.                                 *)

Alphabet == {"a", "B", " ", "\t"}

TextsUpTo(n) == UNION {[1..k -> Alphabet] : k \in 0..n}

AnyTexts == {NoneText} \cup {Str(t) : t \in TextsUpTo(MaxTextLen)}

\* the fields that are not texts
Extras ==
    {[word_count_requirement |-> None,
      evaluation_criteria |-> None,
      additional_metadata |-> None],
     [word_count_requirement |-> Some(WordCountRange(IntVal(1), InfVal)),
      evaluation_criteria |-> Some(<<"clarity", "accuracy">>),
      additional_metadata |-> Some("exam-1")]}

TextTriples ==
    {<<t, Str(<<"B">>), Str(<<"a">>)>> : t \in AnyTexts}
        \cup {<<Str(<<"B", "a">>), t, Str(<<"a">>)>> : t \in AnyTexts}
        \cup {<<Str(<<"B", "a">>), Str(<<"B">>), t>> : t \in AnyTexts}

TextInputs ==
    {[GradingInput(ts[1], ts[2], ts[3], x.word_count_requirement) EXCEPT
          !.evaluation_criteria = x.evaluation_criteria,
          !.additional_metadata = x.additional_metadata] :
        ts \in TextTriples, x \in Extras}

InitTexts ==
    /\ pc = "start"
    /\ grading_input \in TextInputs
    /\ processed_input = None
    /\ sub_scores_list = <<>>
    /\ feedback_list = <<>>
    /\ total_score_achieved = 0
    /\ total_max_score = 0
    /\ errors_list = <<>>
    /\ output = None
    /\ raised = None
    /\ calls = <<>>
    /\ returned = [Relevance |-> NotCalled, Grammar |-> NotCalled, WordCount |-> NotCalled]
    /\ collab = NoCollaboration
    /\ ai_model = TRUE
    /\ request = None
    /\ response = None
    /\ ToolUnused

SpecTexts == InitTexts /\ [][NextCoded]_vars

-----------------------------------------------------------------------------
(* app.py: the /evaluate handler                                           *)

\* a word-count form field: a string int() accepts, an empty or blank
\* string, or a string int() rejects with ValueError
FormInt(n) == [k |-> "int", v |-> n]
FormBlank == [k |-> "blank", v |-> 0]
FormBad == [k |-> "bad", v |-> 0]

\* app.py:56-57
ParseWords(field) == IF field.k = "int" THEN field.v ELSE 0

\* `not text or not text.strip()`
Blank(text) == ~Truthy(text) \/ LStrip(text.v) = <<>>

\* a response of the handler: a status, and an error text or the result
Response(status, error, result) == [status |-> status, error |-> error, result |-> result]

ErrModelNotLoaded == "AI Model not loaded. Cannot process request."
ErrAnswerRequired == "Student answer is required."
ErrQuestionRequired == "Question text is required."
ErrNotIntegers == "Word counts must be valid integers."
ErrMinNegative == "Minimum words cannot be negative."
ErrMaxNegative == "Maximum words cannot be negative."
ErrMaxBelowMin == "Maximum words must be greater than or equal to minimum words."
ErrUnexpected == "An unexpected error occurred on the server."

\* variant: a maximum of 0 kept as the number 0
ConstructWordCountRange_ZeroIsZero(min_words, max_words) ==
    IF min_words > 0 \/ max_words > 0
    THEN Some(WordCountRange(IntVal(min_words), IntVal(max_words)))
    ELSE None

\* app.py:74-79
ConstructWordCountRange(min_words, max_words) ==
    IF min_words > 0 \/ max_words > 0
    THEN Some(WordCountRange(IntVal(min_words),
                             IF max_words = 0 THEN InfVal ELSE IntVal(max_words)))
    ELSE None

\* app.py:83-85
ReferenceFromForm(reference_answer) ==
    IF Truthy(reference_answer) /\ LStrip(reference_answer.v) = <<>>
    THEN NoneText ELSE reference_answer

Reject(status, error) == [k |-> "reject", response |-> Response(status, error, None)]
Accept(gi) == [k |-> "call", grading_input |-> gi]

\* variant: a maximum below the minimum let through
ValidateRequest_AllowsInverted(form) ==
    IF Blank(form.student_answer) THEN Reject(400, ErrAnswerRequired)
    ELSE IF Blank(form.question_text) THEN Reject(400, ErrQuestionRequired)
    ELSE IF form.min_words.k = "bad" \/ form.max_words.k = "bad"
    THEN Reject(400, ErrNotIntegers)
    ELSE LET min_words == ParseWords(form.min_words)
             max_words == ParseWords(form.max_words)
         IN  IF min_words < 0 THEN Reject(400, ErrMinNegative)
             ELSE IF max_words < 0 THEN Reject(400, ErrMaxNegative)
             ELSE Accept(GradingInput(form.question_text, form.student_answer,
                                      ReferenceFromForm(form.reference_answer),
                                      ConstructWordCountRange(min_words, max_words)))

\* app.py:41-94: the response that turns the request down, or the
\* GradingInput evaluate is called with
ValidateRequest(form) ==
    IF Blank(form.student_answer) THEN Reject(400, ErrAnswerRequired)
    ELSE IF Blank(form.question_text) THEN Reject(400, ErrQuestionRequired)
    ELSE IF form.min_words.k = "bad" \/ form.max_words.k = "bad"
    THEN Reject(400, ErrNotIntegers)
    ELSE LET min_words == ParseWords(form.min_words)
             max_words == ParseWords(form.max_words)
         IN  IF min_words < 0 THEN Reject(400, ErrMinNegative)
             ELSE IF max_words < 0 THEN Reject(400, ErrMaxNegative)
             ELSE IF max_words # 0 /\ max_words < min_words
             THEN Reject(400, ErrMaxBelowMin)
             ELSE Accept(GradingInput(form.question_text, form.student_answer,
                                      ReferenceFromForm(form.reference_answer),
                                      ConstructWordCountRange(min_words, max_words)))

\* the form of a request
Form(question_text, student_answer, reference_answer, min_words, max_words) ==
    [question_text |-> question_text, student_answer |-> student_answer,
     reference_answer |-> reference_answer,
     min_words |-> min_words, max_words |-> max_words]

FormWords == {FormBlank, FormBad} \cup {FormInt(n) : n \in -1..MaxWords}

Forms ==
    {Form(q, a, r, lo, hi) :
        q \in Questions \cup {Str(<<" ">>)},
        a \in StudentAnswers \cup {NoneText},
        r \in ReferenceAnswers,
        lo \in FormWords, hi \in FormWords}

\* grading_input while the handler has not built one
NoInput == GradingInput(NoneText, NoneText, NoneText, None)

InitHandler ==
    /\ pc = "request"
    /\ ai_model \in BOOLEAN
    /\ request \in {Some(form) : form \in Forms}
    /\ response = None
    /\ grading_input = NoInput
    /\ processed_input = None
    /\ sub_scores_list = <<>>
    /\ feedback_list = <<>>
    /\ total_score_achieved = 0
    /\ total_max_score = 0
    /\ errors_list = <<>>
    /\ output = None
    /\ raised = None
    /\ calls = <<>>
    /\ returned = [Relevance |-> NotCalled, Grammar |-> NotCalled, WordCount |-> NotCalled]
    /\ collab = NoCollaboration
    /\ ToolUnused

\* app.py:32-98: up to the call of ai_model.evaluate
Handle ==
    /\ pc = "request"
    /\ LET r == ValidateRequest(request[1]) IN
       IF ~ai_model
       THEN /\ response' = Some(Response(500, ErrModelNotLoaded, None))
            /\ pc' = "responded"
            /\ UNCHANGED grading_input
       ELSE IF r.k = "reject"
       THEN /\ response' = Some(r.response)
            /\ pc' = "responded"
            /\ UNCHANGED grading_input
       ELSE /\ grading_input' = r.grading_input
            /\ pc' = "start"
            /\ UNCHANGED response
    /\ UNCHANGED <<processed_input, sub_scores_list, feedback_list,
                   total_score_achieved, total_max_score, errors_list, output,
                   raised, calls, returned, collab, ai_model, request>>
    /\ UNCHANGED toolVars

\* app.py:98-110: evaluate has returned or raised
Respond ==
    /\ pc = "done"
    /\ request # None
    /\ response' = IF raised # None
                   THEN Some(Response(500, ErrUnexpected, None))
                   ELSE Some(Response(200, "", output))
    /\ pc' = "responded"
    /\ UNCHANGED <<grading_input, processed_input, sub_scores_list, feedback_list,
                   total_score_achieved, total_max_score, errors_list, output,
                   raised, calls, returned, collab, ai_model, request>>
    /\ UNCHANGED toolVars

NextHandler ==
    \/ Handle
    \/ Preprocess(FaultMsgs)
    \/ RelevanceStep(FaultMsgs)
    \/ GrammarStep(FaultMsgs)
    \/ WordCountStep(FaultMsgs)
    \/ Compile
    \/ Respond

SpecHandler == InitHandler /\ [][NextHandler]_vars

-----------------------------------------------------------------------------
(* utils/text_utils.py: _get_language_tool and check_grammar_spelling,     *)
(* statement by statement, as threads of one process run them.  A          *)
(* LanguageTool instance is named by the number of the constructor         *)
(* invocation that made it.                                                *)

Threads == 1..MaxThreads

ToolTexts == {Str(<<>>), Str(<<" ", "\t">>), Str(<<"B">>), Str(<<"a", " ", "b">>)}

\* a thread outside check_grammar_spelling
\* (call: the calls it has made; blank: those returned at line 58)
Idle == [pc |-> "idle", call |-> 0, blank |-> 0, text |-> NoneText, new |-> None,
         tool |-> None, reply |-> NoCheck]

InitTool(T) ==
    /\ _tool = None
    /\ constructed = <<>>
    /\ checked = <<>>
    /\ thread = [t \in T |-> Idle]
    /\ pc = "no evaluation"
    /\ grading_input = NoInput
    /\ processed_input = None
    /\ sub_scores_list = <<>>
    /\ feedback_list = <<>>
    /\ total_score_achieved = 0
    /\ total_max_score = 0
    /\ errors_list = <<>>
    /\ output = None
    /\ raised = None
    /\ calls = <<>>
    /\ returned = [Relevance |-> NotCalled, Grammar |-> NotCalled, WordCount |-> NotCalled]
    /\ collab = NoCollaboration
    /\ ai_model = TRUE
    /\ request = None
    /\ response = None

\* text_utils.py:48-60: the call and its test of the text
CallCheck(t, limit) ==
    /\ thread[t].pc = "idle"
    /\ thread[t].call < limit
    /\ \E text \in ToolTexts :
          thread' = [thread EXCEPT ![t] =
              IF ~Truthy(text) \/ isspace(text)
              THEN [@ EXCEPT !.call = @ + 1, !.blank = @ + 1, !.text = text,
                             !.reply = CheckReply(<<>>, 0)]
              ELSE [@ EXCEPT !.call = @ + 1, !.text = text, !.pc = "test",
                             !.new = None, !.tool = None, !.reply = NoCheck]]
    /\ UNCHANGED <<_tool, constructed, checked>>
    /\ UNCHANGED <<evaluateVars, handlerVars>>

\* variant: the tool created anew whether or not one exists
TestTool_AlwaysConstructs(t) ==
    /\ thread[t].pc = "test"
    /\ thread' = [thread EXCEPT ![t].pc = "construct"]
    /\ UNCHANGED <<_tool, constructed, checked>>
    /\ UNCHANGED <<evaluateVars, handlerVars>>

\* text_utils.py:34: if _tool is None
TestTool(t) ==
    /\ thread[t].pc = "test"
    /\ thread' = [thread EXCEPT ![t].pc = IF _tool = None THEN "construct" ELSE "return"]
    /\ UNCHANGED <<_tool, constructed, checked>>
    /\ UNCHANGED <<evaluateVars, handlerVars>>

\* variant: a failed creation leaves a dummy tool behind
Construct_CachesFailure(t) ==
    /\ thread[t].pc = "construct"
    /\ \E e \in Faulting(ExcMsgs) :
          /\ constructed' = Append(constructed,
                  [thread |-> t, call |-> thread[t].call, raised |-> e])
          /\ thread' = [thread EXCEPT ![t] =
                 IF e = None
                 THEN [@ EXCEPT !.pc = "assign", !.new = Some(Len(constructed) + 1)]
                 ELSE [@ EXCEPT !.pc = "idle", !.reply = CheckFailed(e[1])]]
          /\ _tool' = IF e = None THEN _tool ELSE Some(0)
    /\ UNCHANGED checked
    /\ UNCHANGED <<evaluateVars, handlerVars>>

\* text_utils.py:37, the right-hand side: LanguageTool('en-US') returns an
\* instance, or raises; the exception is re-raised at line 45 and caught at
\* line 77
Construct(t) ==
    /\ thread[t].pc = "construct"
    /\ \E e \in Faulting(ExcMsgs) :
          /\ constructed' = Append(constructed,
                  [thread |-> t, call |-> thread[t].call, raised |-> e])
          /\ thread' = [thread EXCEPT ![t] =
                 IF e = None
                 THEN [@ EXCEPT !.pc = "assign", !.new = Some(Len(constructed) + 1)]
                 ELSE [@ EXCEPT !.pc = "idle", !.reply = CheckFailed(e[1])]]
    /\ UNCHANGED <<_tool, checked>>
    /\ UNCHANGED <<evaluateVars, handlerVars>>

\* text_utils.py:37, the store into the global
Assign(t) ==
    /\ thread[t].pc = "assign"
    /\ _tool' = thread[t].new
    /\ thread' = [thread EXCEPT ![t].pc = "return"]
    /\ UNCHANGED <<constructed, checked>>
    /\ UNCHANGED <<evaluateVars, handlerVars>>

\* text_utils.py:46 and 62: return _tool; tool = _get_language_tool()
ReturnTool(t) ==
    /\ thread[t].pc = "return"
    /\ thread' = [thread EXCEPT ![t].pc = "check", ![t].tool = _tool]
    /\ UNCHANGED <<_tool, constructed, checked>>
    /\ UNCHANGED <<evaluateVars, handlerVars>>

\* text_utils.py:63-82: tool.check(text) and the reply built from it
Check(t) ==
    /\ thread[t].pc = "check"
    /\ checked' = Append(checked,
            [thread |-> t, call |-> thread[t].call, tool |-> thread[t].tool,
             text |-> thread[t].text])
    /\ \E e \in Faulting(ExcMsgs) : \E matches \in MatchLists :
          thread' = [thread EXCEPT ![t].pc = "idle",
                                   ![t].reply = IF e = None THEN CheckSucceeded(matches)
                                                ELSE CheckFailed(e[1])]
    /\ UNCHANGED <<_tool, constructed>>
    /\ UNCHANGED <<evaluateVars, handlerVars>>

\* the threads of a server process use the tool concurrently
NextConcurrent ==
    \E t \in Threads :
        \/ CallCheck(t, MaxCalls)
        \/ TestTool(t)
        \/ Construct(t)
        \/ Assign(t)
        \/ ReturnTool(t)
        \/ Check(t)

SpecConcurrent == InitTool(Threads) /\ [][NextConcurrent]_vars

\* one thread makes its calls one after the other
NextSequential ==
    \/ CallCheck(1, MaxSequentialCalls)
    \/ TestTool(1)
    \/ Construct(1)
    \/ Assign(1)
    \/ ReturnTool(1)
    \/ Check(1)

SpecSequential == InitTool({1}) /\ [][NextSequential]_vars

\* The uses of the collaborators side by side: one evaluate call with its
\* collaborators as given, or one thread's series of check_grammar_spelling
\* calls on the language tool.
InitCollaborators == Init \/ InitTool({1})

NextCollaborators ==
    \/ NextCoded
    \/ (1 \in DOMAIN thread /\ NextSequential)

SpecCollaborators == InitCollaborators /\ [][NextCollaborators]_vars

-----------------------------------------------------------------------------
(* Vocabulary of the properties                                            *)

Out == output[1]
Pin == processed_input[1]

ScoresOf(sub) == [i \in 1..Len(sub) |-> sub[i].score]
NamesOf(sub) == [i \in 1..Len(sub) |-> sub[i].criterion_name]
InSeq(x, seq) == \E i \in 1..Len(seq) : seq[i] = x
InErrors(m) == Out.errors # None /\ InSeq(m, Out.errors[1])

Scorers == {"Relevance", "Grammar", "WordCount"}
Faulted(X) == returned[X].k = "raise"
Produced(X) == returned[X].k = "value" /\ returned[X].cs # None
ScoreOf(X) == IF Produced(X) THEN returned[X].cs[1].score ELSE 0

RequirementGiven == grading_input.word_count_requirement # None

\* the scorer's own result for this input and this collaborator behaviour
AsCoded(X) ==
    IF X = "Relevance" THEN _calculate_relevance_score(Pin, collab.encode)
    ELSE IF X = "Grammar" THEN _calculate_grammar_spelling_score(Pin, collab.check)
    ELSE _check_word_count(Pin)

Label(X) ==
    IF X = "Relevance" THEN "Relevance: "
    ELSE IF X = "Grammar" THEN "Grammar/Spelling: " ELSE "Word Count: "

CriterionName(X) ==
    IF X = "Relevance" THEN "Relevance"
    ELSE IF X = "Grammar" THEN "Grammar and Spelling" ELSE "Word Count Adherence"

FaultMessage(X) ==
    CriticalError(IF X = "Relevance" THEN "Critical error in relevance scoring"
                  ELSE IF X = "Grammar" THEN "Critical error in grammar/spelling scoring"
                  ELSE "Critical error in word count checking",
                  returned[X].msg)

\* the entries of sub_scores that carry criterion X
EntriesOf(X) == {i \in 1..Len(Out.sub_scores) : Out.sub_scores[i].criterion_name = CriterionName(X)}

-----------------------------------------------------------------------------
(* C1: the total_score of every GradingOutput evaluate returns is the sum  *)
(* of the score fields of its sub_scores, whatever each scorer did         *)
(* (normal result, degraded result, unexpected fault) and whether or not   *)
(* Word Count is present.                                                  *)
C1_TotalIsSumOfSubScores ==
    output # None => Out.total_score = Sum(ScoresOf(Out.sub_scores))

C1_Witness ==
    /\ output # None
    /\ Faulted("Relevance")
    /\ Produced("Grammar") /\ ScoreOf("Grammar") = 400
    /\ Produced("WordCount") /\ ScoreOf("WordCount") = 250
    /\ Out.total_score = 650

(* C2: needs_teacher_review is true exactly when errors is a non-empty     *)
(* sequence; when evaluate flagged nothing, errors is absent (never an     *)
(* empty sequence) and needs_teacher_review is false.                      *)
C2_ReviewIffErrors ==
    output # None =>
        /\ Out.errors # Some(<<>>)
        /\ Out.needs_teacher_review <=> (Out.errors # None /\ Out.errors[1] # <<>>)
        /\ errors_list = <<>> => (Out.errors = None /\ ~Out.needs_teacher_review)
        /\ errors_list # <<>> => Out.errors = Some(errors_list)

C2_Witness ==
    /\ output # None
    /\ Out.errors = None
    /\ ~Out.needs_teacher_review
    /\ Len(Out.sub_scores) = 3

C2_WitnessFlagged ==
    /\ output # None
    /\ Out.errors # None
    /\ Out.needs_teacher_review

(* C3: evaluate always returns a GradingOutput and never raises, whatever  *)
(* the collaborators and the scorers do, a failure during the              *)
(* normalization step included.                                            *)
C3_NeverRaises ==
    pc = "done" => (raised = None /\ output # None)

(* C4: sub_scores holds exactly one Relevance entry, then exactly one      *)
(* Grammar and Spelling entry, then a Word Count Adherence entry exactly   *)
(* when the input carried a requirement; with no requirement sub_scores    *)
(* has two entries and Word Count adds nothing to total_score or to        *)
(* automated_feedback.                                                     *)
C4_Order ==
    NamesOf(Out.sub_scores) =
        <<"Relevance", "Grammar and Spelling">>
            \o (IF RequirementGiven THEN <<"Word Count Adherence">> ELSE <<>>)

WordCountLine(line) ==
    line[1] \in {"Word Count: ", "Critical error in word count checking"}

C4_WitnessRequirement ==
    /\ output # None
    /\ RequirementGiven
    /\ Faulted("WordCount")
    /\ Len(Out.sub_scores) = 3

(* C5: a fault of one scorer does not abort the others: every scorer is    *)
(* invoked exactly once, in the order Relevance, Grammar, Word Count, and  *)
(* each scorer that did not fault has the CriterionScore, the feedback     *)
(* line and the contribution to total_score its own code gives for this    *)
(* input, as when nothing faults.                                          *)
ExpectedEntries(X) ==
    IF Faulted(X)
    THEN IF X = "WordCount" /\ ~RequirementGiven THEN <<>>
         ELSE <<CriterionScore(CriterionName(X), 0, 500, FaultMessage(X))>>
    ELSE returned[X].cs

ExpectedLines(X) ==
    IF Faulted(X) THEN <<FaultMessage(X)>>
    ELSE IF Produced(X) THEN <<<<Label(X)>> \o returned[X].cs[1].feedback>>
    ELSE <<>>

C5_FaultIsolation ==
    (output # None /\ \E X \in Scorers : Faulted(X)) =>
        /\ calls = <<"Relevance", "Grammar", "WordCount">>
        /\ \A X \in Scorers : ~Faulted(X) => returned[X] = AsCoded(X)
        /\ Out.sub_scores = ExpectedEntries("Relevance") \o ExpectedEntries("Grammar")
                                \o ExpectedEntries("WordCount")
        /\ Out.automated_feedback =
               Join(ExpectedLines("Relevance") \o ExpectedLines("Grammar")
                        \o ExpectedLines("WordCount"), "\n")
        /\ Out.total_score = ScoreOf("Relevance") + ScoreOf("Grammar") + ScoreOf("WordCount")

C5_Witness ==
    /\ output # None
    /\ Faulted("Grammar")
    /\ collab.encode.k = "sim" /\ ScoreOf("Relevance") = 360
    /\ ScoreOf("WordCount") = 500
    /\ Out.total_score = 860

(* C6: a scorer that faults leaves exactly one placeholder for its         *)
(* criterion, with score 0, max_score 5.0 and the fault message as         *)
(* feedback (for Word Count only if the original input had a requirement); *)
(* the fault message is in errors, needs_teacher_review is true, and the   *)
(* placeholder adds 0 to total_score.                                      *)
C6_Placeholder ==
    output # None =>
        \A X \in Scorers : Faulted(X) =>
            /\ IF X = "WordCount" /\ ~RequirementGiven
               THEN EntriesOf(X) = {}
               ELSE /\ Cardinality(EntriesOf(X)) = 1
                    /\ \A i \in EntriesOf(X) :
                          Out.sub_scores[i] =
                              CriterionScore(CriterionName(X), 0, 500, FaultMessage(X))
            /\ InErrors(FaultMessage(X))
            /\ Out.needs_teacher_review
            /\ Out.total_score =
                   Sum(ScoresOf(Out.sub_scores)) /\
               Out.total_score =
                   ScoreOf("Relevance") + ScoreOf("Grammar") + ScoreOf("WordCount")

C6_Witness ==
    /\ output # None
    /\ Faulted("Relevance") /\ Faulted("WordCount")
    /\ RequirementGiven
    /\ ScoreOf("Grammar") = 500
    /\ Out.total_score = 500
    /\ Len(Out.sub_scores) = 3

(* C7: whenever the first issue description the grammar checker returns    *)
(* starts with "LanguageTool Error:", whatever the issue count, Grammar    *)
(* has score 0.0 and that description as feedback, the feedback is in      *)
(* errors and needs_teacher_review is true.                                *)
SentinelFirst ==
    /\ collab.check.k = "reply"
    /\ collab.check.issues # <<>>
    /\ StartsWithSentinel(collab.check.issues[1])

\* stated for the issue counts a checker can report (none below zero)
C7_SentinelOverride ==
    (output # None /\ SentinelFirst /\ collab.check.issue_count >= 0) =>
        /\ Produced("Grammar")
        /\ returned.Grammar.cs[1].score = 0
        /\ returned.Grammar.cs[1].feedback = collab.check.issues[1]
        /\ Out.sub_scores[2] = returned.Grammar.cs[1]
        /\ InErrors(collab.check.issues[1])
        /\ Out.needs_teacher_review

(* C8: errors holds only the feedback of criteria in a flagged condition   *)
(* (collaborator failure, missing reference answer, invalid word-count     *)
(* requirement) and synthesized fault messages; when the checker returns   *)
(* real findings (first issue not the sentinel) the Grammar feedback is    *)
(* not in errors and the Grammar score is its bucket value.                *)
RealFindings ==
    /\ collab.check.k = "reply"
    /\ collab.check.issue_count >= 0
    /\ collab.check.issues # <<>> => ~StartsWithSentinel(collab.check.issues[1])

FlaggedCondition(X) ==
    IF X = "Relevance"
    THEN ~Truthy(Pin.reference_answer) \/ collab.encode.k = "raise"
    ELSE IF X = "Grammar"
    THEN collab.check.k = "raise" \/ SentinelFirst
    ELSE /\ Pin.word_count_requirement # None
         /\ InvalidRequirement(Pin.word_count_requirement[1].min_words,
                               Pin.word_count_requirement[1].max_words)

AllowedErrors ==
    {FaultMessage(X) : X \in {Y \in Scorers : Faulted(Y)}}
        \cup {returned[X].cs[1].feedback :
                 X \in {Y \in Scorers : Produced(Y) /\ FlaggedCondition(Y)}}

C8_OnlyFlaggedInErrors ==
    output # None =>
        /\ \A i \in 1..Len(errors_list) : errors_list[i] \in AllowedErrors
        /\ (RealFindings /\ Produced("Grammar")) =>
              /\ ~InErrors(returned.Grammar.cs[1].feedback)
              /\ returned.Grammar.cs[1].score = BucketScore(collab.check.issue_count)

(* C9: with a reference answer that is present and non-empty, a student    *)
(* answer that is empty after normalization and no or a valid word-count   *)
(* requirement, Relevance and Grammar both score 0.0 with their 'answer is *)
(* empty' feedback, nothing is added to errors and needs_teacher_review is *)
(* false.                                                                  *)
RequirementAbsentOrValid ==
    \/ grading_input.word_count_requirement = None
    \/ ~InvalidRequirement(grading_input.word_count_requirement[1].min_words,
                           grading_input.word_count_requirement[1].max_words)

EmptyAnswerOutcome ==
    /\ Out.sub_scores[1] = CriterionScore("Relevance", 0, 500, FbRelevanceEmpty)
    /\ Out.sub_scores[2] = CriterionScore("Grammar and Spelling", 0, 500, FbGrammarEmpty)
    /\ ~InErrors(FbRelevanceEmpty)
    /\ ~InErrors(FbGrammarEmpty)
    /\ Out.errors = None
    /\ ~Out.needs_teacher_review

C9_EmptyAnswerNotFlagged ==
    ( /\ output # None
      /\ grading_input.reference_answer.k = "str"
      /\ grading_input.reference_answer.v # <<>>
      /\ Pin.student_answer.v = <<>>
      /\ RequirementAbsentOrValid ) => EmptyAnswerOutcome

(* C9 as amended: the same for a reference answer that is non-empty after  *)
(* normalization (a whitespace-only reference normalizes to the empty text *)
(* and is treated as a missing reference).                                 *)
C9_EmptyAnswerNotFlaggedAmended ==
    ( /\ output # None
      /\ grading_input.reference_answer.k = "str"
      /\ normalize_text(grading_input.reference_answer).v # <<>>
      /\ Pin.student_answer.v = <<>>
      /\ RequirementAbsentOrValid ) => EmptyAnswerOutcome

C9_Witness ==
    /\ output # None
    /\ grading_input.reference_answer = Str(<<"B", " ", "a">>)
    /\ grading_input.student_answer = Str(<<" ", "\t">>)
    /\ grading_input.word_count_requirement = Some(WordCountRange(IntVal(1), InfVal))
    /\ Out.total_score = 250
    /\ Out.errors = None

ContainsSeq(message, part) ==
    \E i \in 1..(Len(message) - Len(part) + 1) :
        SubSeq(message, i, i + Len(part) - 1) = part

RecoveredAndFlagged(entry, name, reason) ==
    /\ entry.criterion_name = name
    /\ entry.score = 0
    /\ ContainsSeq(entry.feedback, reason)
    /\ InErrors(entry.feedback)
    /\ Out.needs_teacher_review

EncodeFailed == collab.encode.k = "raise"
GrammarCheckRaised == collab.check.k = "raise"
ToolFailed(e) == collab.check = CheckFailed(e)

C11_CollaboratorFailureRecovered ==
    output # None =>
        /\ EncodeFailed =>
              RecoveredAndFlagged(Out.sub_scores[1], "Relevance", collab.encode.msg)
        /\ GrammarCheckRaised =>
              RecoveredAndFlagged(Out.sub_scores[2], "Grammar and Spelling",
                                  collab.check.msg)
        /\ \A e \in ExcMsgs : ToolFailed(e) =>
              RecoveredAndFlagged(Out.sub_scores[2], "Grammar and Spelling", e)

C11_Witness ==
    /\ output # None
    /\ EncodeFailed
    /\ ToolFailed(<<"Tool critical failure">>)
    /\ Out.sub_scores[1].score = 0
    /\ Out.sub_scores[2].feedback = SentinelMessage(<<"Tool critical failure">>)
    /\ Len(Out.errors[1]) >= 2

C11_WitnessCheckRaised ==
    /\ output # None
    /\ GrammarCheckRaised
    /\ Out.sub_scores[2].feedback = FbCouldNotCheck(collab.check.msg)
    /\ Out.needs_teacher_review

(* C12: when the grammar checker returns normally and its first issue is   *)
(* not the failure sentinel, the Grammar score is decided by the issue     *)
(* count alone, through the buckets 0 -> 5.0, 1-2 -> 4.0, 3-4 -> 3.0,      *)
(* 5-6 -> 2.0, 7-8 -> 1.0, more than 8 -> 0.0, for every issue count from  *)
(* zero up, whatever the answer and the issue descriptions are.            *)
BucketTable(n) ==
    CASE n = 0 -> 500
      [] n \in 1..2 -> 400
      [] n \in 3..4 -> 300
      [] n \in 5..6 -> 200
      [] n \in 7..8 -> 100
      [] n > 8 -> 0

C12_GrammarBuckets ==
    (returned.Grammar.k # "notcalled" /\ RealFindings) =>
        /\ Produced("Grammar")
        /\ returned.Grammar.cs[1].score = BucketTable(collab.check.issue_count)
        /\ returned.Grammar.cs[1].max_score = 500

C12_Witness ==
    /\ output # None
    /\ RealFindings
    /\ collab.check.issue_count = MaxIssueCount
    /\ collab.check.issues = <<IssueFinding, IssueSentinel>>
    /\ Out.sub_scores[2].score = 0

C12_WitnessBoundary ==
    /\ output # None
    /\ RealFindings
    /\ collab.check.issue_count = 8
    /\ Out.sub_scores[2].score = 100

(* C13: for every valid requirement [min, max] and every student answer    *)
(* with whitespace-split word count c, Word Count scores 5.0 exactly when  *)
(* min <= c <= max (c = min and c = max included), 2.5 with the 'below the *)
(* minimum' feedback exactly when c < min, 2.5 with the 'exceeds the       *)
(* maximum' feedback exactly when c > max, and no other score.             *)
MinOf == grading_input.word_count_requirement[1].min_words
MaxOf == grading_input.word_count_requirement[1].max_words

\* both bounds present, none negative, min <= max (an unbounded max is
\* above every min)
ValidRange(lo, hi) ==
    /\ lo.k = "int" /\ lo.v >= 0
    /\ \/ hi.k = "inf"
       \/ hi.k = "int" /\ hi.v >= 0 /\ lo.v <= hi.v

ValidRequirementScored ==
    /\ returned.WordCount.k # "notcalled"
    /\ RequirementGiven
    /\ ValidRange(MinOf, MaxOf)

SaysBelow(feedback) == Contains(feedback, ") is below the minimum requirement of ")
SaysExceeds(feedback) == Contains(feedback, ") exceeds the maximum limit of ")

C13_WordCountRange ==
    ValidRequirementScored =>
        /\ Produced("WordCount")
        /\ LET c == count_words(grading_input.student_answer)
               cs == returned.WordCount.cs[1]
               above == MaxOf.k = "int" /\ c > MaxOf.v
           IN  /\ cs.score \in {500, 250}
               /\ cs.score = 500 <=> (MinOf.v <= c /\ ~above)
               /\ (cs.score = 250 /\ SaysBelow(cs.feedback)) <=> c < MinOf.v
               /\ (cs.score = 250 /\ SaysExceeds(cs.feedback)) <=> above
               /\ ~(SaysBelow(cs.feedback) /\ SaysExceeds(cs.feedback))

C13_Witness ==
    /\ ValidRequirementScored
    /\ MinOf = IntVal(1) /\ MaxOf = IntVal(2)
    /\ count_words(grading_input.student_answer) = 1
    /\ returned.WordCount.cs[1].score = 500

C13_WitnessUpperEnd ==
    /\ ValidRequirementScored
    /\ MinOf = IntVal(0) /\ MaxOf = IntVal(2)
    /\ count_words(grading_input.student_answer) = 2
    /\ returned.WordCount.cs[1].score = 500

C13_WitnessExceeds ==
    /\ ValidRequirementScored
    /\ MaxOf = IntVal(1)
    /\ count_words(grading_input.student_answer) = 2
    /\ returned.WordCount.cs[1].score = 250
    /\ SaysExceeds(returned.WordCount.cs[1].feedback)

(* C14: a requirement with a missing bound, a negative bound or min > max  *)
(* is never scored against the answer: Word Count returns score 0.0 with   *)
(* the 'Invalid word count requirement' feedback whatever the student      *)
(* answer is, and evaluate adds that feedback to errors and sets           *)
(* needs_teacher_review.                                                   *)
InvalidRange(lo, hi) ==
    \/ lo.k = "none"
    \/ hi.k = "none"
    \/ lo.k = "int" /\ lo.v < 0
    \/ hi.k = "int" /\ hi.v < 0
    \/ lo.k = "int" /\ hi.k = "int" /\ lo.v > hi.v

InvalidRequirementGiven == RequirementGiven /\ InvalidRange(MinOf, MaxOf)

C14_InvalidRequirement ==
    InvalidRequirementGiven =>
        /\ returned.WordCount.k # "notcalled" =>
              returned.WordCount =
                  Return(CriterionScore("Word Count Adherence", 0, 500, FbInvalidRequirement))
        /\ output # None =>
              /\ Out.sub_scores[3] =
                     CriterionScore("Word Count Adherence", 0, 500, FbInvalidRequirement)
              /\ InErrors(FbInvalidRequirement)
              /\ Out.needs_teacher_review

C14_Witness ==
    /\ output # None
    /\ InvalidRequirementGiven
    /\ MinOf = IntVal(2) /\ MaxOf = IntVal(1)
    /\ count_words(grading_input.student_answer) = 2
    /\ Out.sub_scores[3].score = 0
    /\ InErrors(FbInvalidRequirement)

C14_WitnessMissingBound ==
    /\ output # None
    /\ InvalidRequirementGiven
    /\ MinOf = NoneInt /\ MaxOf = InfVal
    /\ Out.sub_scores[3].feedback = FbInvalidRequirement

(* C15: an unbounded maximum is always satisfied on its upper side.  A     *)
(* request with max_words = 0 and min_words > 0 yields a requirement with  *)
(* an unbounded max, valid for every min, under which every answer with a  *)
(* word count of at least min scores 5.0 and the 'exceeds the maximum'     *)
(* outcome does not occur; a request with min_words = 0 and max_words = 0  *)
(* yields no word-count requirement at all.                                *)
RequestedMin == ParseWords(request[1].min_words)
MaxIsZero == ParseWords(request[1].max_words) = 0

\* the handler has decided on a request that is well-formed apart from its
\* word counts
Decided ==
    /\ request # None
    /\ pc # "request"
    /\ ai_model
    /\ ~Blank(request[1].student_answer)
    /\ ~Blank(request[1].question_text)
    /\ request[1].min_words.k # "bad"
    /\ request[1].max_words.k # "bad"

C15_UnboundedMaximum ==
    Decided =>
        /\ (MaxIsZero /\ RequestedMin > 0) =>
              /\ grading_input.word_count_requirement =
                     Some(WordCountRange(IntVal(RequestedMin), InfVal))
              /\ ValidRange(MinOf, MaxOf)
              /\ returned.WordCount.k = "value" =>
                    /\ Produced("WordCount")
                    /\ returned.WordCount.cs[1].feedback # FbInvalidRequirement
                    /\ ~SaysExceeds(returned.WordCount.cs[1].feedback)
                    /\ count_words(request[1].student_answer) >= RequestedMin =>
                          returned.WordCount.cs[1].score = 500
        /\ (MaxIsZero /\ RequestedMin = 0) =>
              /\ grading_input # NoInput
              /\ grading_input.word_count_requirement = None
              /\ returned.WordCount.k = "value" => returned.WordCount = ReturnNone

C15_Witness ==
    /\ Decided
    /\ request[1].max_words = FormInt(0)
    /\ request[1].min_words = FormInt(2)
    /\ count_words(request[1].student_answer) = 2
    /\ pc = "responded"
    /\ response[1].status = 200
    /\ response[1].result[1].sub_scores[3].score = 500

C15_WitnessNoRequirement ==
    /\ Decided
    /\ request[1].max_words = FormBlank
    /\ request[1].min_words = FormInt(0)
    /\ pc = "responded"
    /\ response[1].status = 200
    /\ Len(response[1].result[1].sub_scores) = 2

(* C16: the shared grammar tool is created at most once per process even   *)
(* when several threads make their first call to check_grammar_spelling    *)
(* concurrently: in no interleaving is the LanguageTool constructor        *)
(* invoked twice.                                                          *)
Constructions == {i \in 1..Len(constructed) : constructed[i].raised = None}

\* stated for constructor invocations that return an instance (a failed
\* creation may be tried again)
C16_ToolCreatedAtMostOnce == Cardinality(Constructions) <= 1

\* two threads, each in its first call, have both had an instance made
C16_DoubleCreation ==
    \E i, j \in Constructions :
        /\ constructed[i].thread # constructed[j].thread
        /\ constructed[i].call = 1
        /\ constructed[j].call = 1

(* C17: in a sequential series of check_grammar_spelling calls on          *)
(* non-empty text that starts with the tool not created, and with          *)
(* construction succeeding, the LanguageTool constructor is invoked        *)
(* exactly once, on the first call, and every call runs exactly one check, *)
(* all on the same tool instance.                                          *)
NoCreationFailed == \A i \in 1..Len(constructed) : constructed[i].raised = None

\* the calls made so far were all on text that is neither empty nor blank
SeriesOnText ==
    /\ DOMAIN thread = {1}
    /\ thread[1].call >= 1
    /\ thread[1].blank = 0
    /\ NoCreationFailed

PastConstructor ==
    thread[1].call > 1 \/ thread[1].pc \in {"assign", "return", "check", "idle"}

\* the calls that have run their check
ChecksDue == IF thread[1].pc = "idle" THEN thread[1].call ELSE thread[1].call - 1

C17_ConstructedOnceSequentially ==
    SeriesOnText =>
        /\ IF PastConstructor
           THEN Len(constructed) = 1 /\ constructed[1].call = 1
           ELSE constructed = <<>>
        /\ Len(checked) = ChecksDue
        /\ \A i \in 1..Len(checked) :
              checked[i].call = i /\ checked[i].tool = Some(1)

C17_Witness ==
    /\ SeriesOnText
    /\ thread[1].pc = "idle"
    /\ thread[1].call = 3
    /\ Len(constructed) = 1
    /\ Len(checked) = 3
    /\ _tool = Some(1)

(* C18: normalize_text is idempotent, normalize(normalize(t)) =            *)
(* normalize(t) for every text t, and maps an absent input to an absent    *)
(* output; its result for a present text has no leading or trailing        *)
(* whitespace and no run of two or more whitespace characters.             *)
NoOuterWhitespace(t) == t = <<>> \/ (~IsSpace(t[1]) /\ ~IsSpace(t[Len(t)]))
NoWhitespaceRun(t) == \A i \in 1..(Len(t) - 1) : ~(IsSpace(t[i]) /\ IsSpace(t[i + 1]))

\* `result` is what the normalizer made of `text`
Normalized(text, result) ==
    /\ normalize_text(result) = result
    /\ text = NoneText <=> result = NoneText
    /\ text # NoneText =>
          /\ result.k = "str"
          /\ NoOuterWhitespace(result.v)
          /\ NoWhitespaceRun(result.v)

C18_WitnessInner ==
    /\ processed_input # None
    /\ grading_input.question_text = Str(<<"a", " ", "\t">>)
    /\ Pin.question_text = Str(<<"a">>)

C18_WitnessAbsent ==
    /\ processed_input # None
    /\ grading_input.student_answer = NoneText
    /\ Pin.student_answer = NoneText

(* C19: normalization and evaluation leave the caller's GradingInput       *)
(* unchanged: _preprocess_input returns a new GradingInput whose three     *)
(* text fields are normalized and whose word_count_requirement,            *)
(* evaluation_criteria and additional_metadata are passed through          *)
(* unchanged, and through every step of evaluate each field of the         *)
(* original input keeps the value it had before the call.                  *)
InputKept == grading_input' = grading_input

\* this step is the one in which _preprocess_input returns
Preprocessed == processed_input = None /\ processed_input' # None

NormalizedCopy(gi) ==
    [question_text |-> normalize_text(gi.question_text),
     student_answer |-> normalize_text(gi.student_answer),
     reference_answer |-> normalize_text(gi.reference_answer),
     evaluation_criteria |-> gi.evaluation_criteria,
     word_count_requirement |-> gi.word_count_requirement,
     additional_metadata |-> gi.additional_metadata]

C19_InputUnchanged ==
    [][ /\ InputKept
        /\ Preprocessed => processed_input' = Some(NormalizedCopy(grading_input)) ]_vars

(* C19 as amended: the same, except that the copy's reference_answer is    *)
(* absent when the original's is absent or the empty string, and is the    *)
(* normalized text otherwise.                                              *)
NormalizedCopyAmended(gi) ==
    [NormalizedCopy(gi) EXCEPT
        !.reference_answer = IF gi.reference_answer = Str(<<>>) THEN NoneText ELSE @]

C19_InputUnchangedAmended ==
    [][ /\ InputKept
        /\ Preprocessed =>
              processed_input' = Some(NormalizedCopyAmended(grading_input)) ]_vars

C19_Witness ==
    /\ output # None
    /\ grading_input.reference_answer = Str(<<" ", "B", "\t">>)
    /\ Pin.reference_answer = Str(<<"b">>)
    /\ grading_input.additional_metadata = Some("exam-1")
    /\ Pin.additional_metadata = Some("exam-1")
    /\ Pin.word_count_requirement = Some(WordCountRange(IntVal(1), InfVal))

C19_WitnessEmptyReference ==
    /\ output # None
    /\ grading_input.reference_answer = Str(<<>>)
    /\ Pin.reference_answer = NoneText

(* C20: automated_feedback is the newline-joined sequence of the           *)
(* criteria's feedback in the order Relevance, Grammar, Word Count, every  *)
(* line prefixed with its criterion's short label ("Relevance: ",          *)
(* "Grammar/Spelling: ", "Word Count: "), in every outcome including       *)
(* scorer faults; it is the fixed fallback sentence exactly when no        *)
(* criterion produced feedback.                                            *)
ShortLabel(criterion_name) ==
    IF criterion_name = "Relevance" THEN "Relevance: "
    ELSE IF criterion_name = "Grammar and Spelling" THEN "Grammar/Spelling: "
    ELSE "Word Count: "

HasFeedback(entry) == entry.feedback # <<>>

\* one labelled line for each criterion of sub_scores that has feedback
LabelledLines ==
    LET given == SelectSeq(Out.sub_scores, HasFeedback)
    IN  [i \in 1..Len(given) |->
            <<ShortLabel(given[i].criterion_name)>> \o given[i].feedback]

C20_LabelledFeedback ==
    output # None =>
        /\ \A i \in 1..Len(feedback_list) :
              feedback_list[i][1] \in {"Relevance: ", "Grammar/Spelling: ", "Word Count: "}
        /\ Out.automated_feedback =
              IF LabelledLines = <<>> THEN FbFallback ELSE Join(LabelledLines, "\n")
        /\ Out.automated_feedback = FbFallback <=> LabelledLines = <<>>

\* the outcome that departs from it: a scorer faulted and its line in
\* automated_feedback is the bare fault message
C20_UnlabelledFaultLine ==
    /\ output # None
    /\ Faulted("Grammar")
    /\ ~Faulted("Relevance") /\ ~Faulted("WordCount")
    /\ InSeq(FaultMessage("Grammar"), feedback_list)
    /\ ~InSeq(<<"Grammar/Spelling: ">> \o FaultMessage("Grammar"), feedback_list)

(* C21: request validation errors never reach the core.  The /evaluate     *)
(* handler calls AIModel.evaluate only when student_answer and             *)
(* question_text are non-blank, both word counts parse as integers,        *)
(* min_words >= 0, max_words >= 0 and the constructed requirement (if any) *)
(* has min <= max; every other request is answered with an error response  *)
(* without any evaluation, so no evaluation started through the handler    *)
(* yields the 'Invalid word count requirement' outcome.                    *)
WellFormed(form) ==
    /\ form.student_answer.k = "str"
    /\ \E i \in 1..Len(form.student_answer.v) : ~IsSpace(form.student_answer.v[i])
    /\ form.question_text.k = "str"
    /\ \E i \in 1..Len(form.question_text.v) : ~IsSpace(form.question_text.v[i])
    /\ form.min_words.k \in {"int", "blank"}
    /\ form.max_words.k \in {"int", "blank"}
    /\ ParseWords(form.min_words) >= 0
    /\ ParseWords(form.max_words) >= 0
    /\ ParseWords(form.max_words) = 0
          \/ ParseWords(form.min_words) <= ParseWords(form.max_words)

EvaluationStarted ==
    \/ pc \in {"start", "relevance", "grammar", "wordcount", "compile", "done"}
    \/ processed_input # None
    \/ calls # <<>>
    \/ output # None
    \/ raised # None
    \/ grading_input # NoInput

TurnedDown ==
    /\ pc = "responded"
    /\ response # None
    /\ response[1].status \in {400, 500}
    /\ response[1].error # ""
    /\ response[1].result = None

InvalidRequirementOutcome ==
    \/ InSeq(FbInvalidRequirement, errors_list)
    \/ \E i \in 1..Len(sub_scores_list) : sub_scores_list[i].feedback = FbInvalidRequirement
    \/ Produced("WordCount") /\ returned.WordCount.cs[1].feedback = FbInvalidRequirement

C21_ValidationBeforeCore ==
    (request # None /\ pc # "request") =>
        /\ EvaluationStarted => (WellFormed(request[1]) /\ ai_model)
        /\ ~WellFormed(request[1]) => (TurnedDown /\ ~EvaluationStarted)
        /\ ~InvalidRequirementOutcome
        /\ grading_input.word_count_requirement # None =>
              ValidRange(MinOf, MaxOf)

C21_Witness ==
    /\ request # None
    /\ request[1].min_words = FormInt(2)
    /\ request[1].max_words = FormInt(1)
    /\ ~Blank(request[1].student_answer)
    /\ ~Blank(request[1].question_text)
    /\ ai_model
    /\ TurnedDown
    /\ response[1].error = ErrMaxBelowMin
    /\ ~EvaluationStarted

C21_WitnessEvaluated ==
    /\ request # None
    /\ pc = "responded"
    /\ response[1].status = 200
    /\ request[1].min_words = FormInt(1)
    /\ request[1].max_words = FormInt(2)
    /\ Len(response[1].result[1].sub_scores) = 3

(* C22: each scorer recovers every degraded condition of its criterion     *)
(* (missing reference answer, empty student answer, invalid word-count     *)
(* requirement, collaborator failure) locally: it returns a CriterionScore *)
(* with score 0.0, max_score 5.0 and non-empty explanatory feedback, and   *)
(* no exception leaves the scorer.                                         *)
Degraded(X) ==
    IF X = "Relevance"
    THEN \/ Blank(grading_input.reference_answer)
         \/ Blank(grading_input.student_answer)
         \/ EncodeFailed
    ELSE IF X = "Grammar"
    THEN \/ Blank(grading_input.student_answer)
         \/ GrammarCheckRaised
         \/ \E e \in ExcMsgs : ToolFailed(e)
    ELSE InvalidRequirementGiven

RecoveredLocally(X) ==
    /\ returned[X].k = "value"
    /\ returned[X].cs # None
    /\ returned[X].cs[1].criterion_name = CriterionName(X)
    /\ returned[X].cs[1].score = 0
    /\ returned[X].cs[1].max_score = 500
    /\ returned[X].cs[1].feedback # <<>>

C22_DegradedRecoveredLocally ==
    \A X \in Scorers :
        (returned[X].k # "notcalled" /\ Degraded(X)) => RecoveredLocally(X)

C22_Witness ==
    /\ output # None
    /\ Blank(grading_input.student_answer)
    /\ ~Blank(grading_input.reference_answer)
    /\ InvalidRequirementGiven
    /\ \A X \in Scorers : Degraded(X) /\ RecoveredLocally(X)
    /\ Out.total_score = 0

C22_WitnessCollaborators ==
    /\ output # None
    /\ EncodeFailed
    /\ GrammarCheckRaised
    /\ RecoveredLocally("Relevance") /\ RecoveredLocally("Grammar")

-----------------------------------------------------------------------------
(* C23: collaborators are invoked only when their result can be used       *)

Ran(X) == returned[X].k # "notcalled"
AnswerGiven == Pin.student_answer.v # <<>>
ReferenceGiven == Pin.reference_answer.k = "str" /\ Pin.reference_answer.v # <<>>
BlankText(text) == text.k = "none" \/ \A i \in DOMAIN text.v : IsSpace(text.v[i])

\* the grammar checker is called once, with the normalized student answer,
\* when that answer is non-empty, and not at all when it is empty
CheckedOnceIfAnswered ==
    Ran("Grammar") =>
        collab.check_calls = IF AnswerGiven THEN <<Pin.student_answer>> ELSE <<>>

\* the language tool's check is never run for an empty or whitespace-only
\* text: such a call of check_grammar_spelling returns at once
ToolNeverChecksBlank ==
    /\ \A i \in DOMAIN checked : ~BlankText(checked[i].text)
    /\ \A t \in DOMAIN thread :
          thread[t].call > 0 /\ BlankText(thread[t].text) =>
              thread[t].pc = "idle" /\ thread[t].reply = CheckReply(<<>>, 0)

\* C23 as stated: the embedding collaborator is called exactly twice, with
\* the student answer and then the reference answer, whenever both
\* normalized texts are non-empty, and not at all otherwise; the grammar
\* checker is called once when the answer is non-empty and not otherwise;
\* the language tool never checks a blank text.
C23_CollaboratorCalls ==
    /\ Ran("Relevance") =>
          collab.encode_calls =
              IF AnswerGiven /\ ReferenceGiven
              THEN <<Pin.student_answer, Pin.reference_answer>> ELSE <<>>
    /\ CheckedOnceIfAnswered
    /\ ToolNeverChecksBlank

\* C23 amended: when both normalized texts are non-empty the embedding
\* collaborator is called with the student answer first and then, unless
\* that first call raised, with the reference answer: twice, or once when
\* the first call raised; it is not called at all when the reference is
\* absent or the student answer is empty.  The grammar checker and the
\* language tool are as stated.
C23_CollaboratorCallsAmended ==
    /\ Ran("Relevance") =>
          IF AnswerGiven /\ ReferenceGiven
          THEN \/ collab.encode_calls = <<Pin.student_answer, Pin.reference_answer>>
               \/ /\ collab.encode_calls = <<Pin.student_answer>>
                  /\ collab.encode.k = "raise"
                  /\ returned.Relevance =
                       Return(CriterionScore("Relevance", 0, 500,
                                             FbRelevanceError(collab.encode.msg)))
          ELSE collab.encode_calls = <<>>
    /\ CheckedOnceIfAnswered
    /\ ToolNeverChecksBlank

\* an evaluation that called the embedding collaborator twice and the
\* grammar checker once
C23_Witness ==
    /\ output # None
    /\ collab.encode.k = "sim"
    /\ Len(collab.encode_calls) = 2
    /\ collab.encode_calls[1] = Pin.student_answer
    /\ collab.encode_calls[2] = Pin.reference_answer
    /\ collab.check_calls = <<Pin.student_answer>>

\* an evaluation whose first encode call raised
C23_WitnessFirstEncodeRaised ==
    /\ output # None
    /\ AnswerGiven /\ ReferenceGiven
    /\ Len(collab.encode_calls) = 1

\* an evaluation of an empty answer: neither collaborator called
C23_WitnessNoCalls ==
    /\ output # None
    /\ ~AnswerGiven
    /\ grading_input.reference_answer = Str(<<"B", " ", "a">>)
    /\ collab.encode_calls = <<>> /\ collab.check_calls = <<>>

\* a series of check_grammar_spelling calls, some on blank texts, one checked
C23_WitnessTool ==
    /\ 1 \in DOMAIN thread
    /\ thread[1].blank >= 2
    /\ Len(checked) >= 1
    /\ thread[1].pc = "idle"

-----------------------------------------------------------------------------
(* C24: the grammar scorer is total over the checker's replies             *)

CheckerReplied == Ran("Grammar") /\ collab.check.k = "reply"
WholeScores == {0, 100, 200, 300, 400, 500}

\* C24: for every reply (issues, count) of the grammar checker on a
\* non-empty answer, whatever the count, the scorer returns a
\* CriterionScore whose score is one of 0, 1, 2, 3, 4, 5 and whose feedback
\* is set; it does not raise, and the Evaluator builds no placeholder.
C24_GrammarScorerTotal ==
    CheckerReplied =>
        /\ ~Faulted("Grammar")
        /\ Produced("Grammar")
        /\ returned.Grammar.cs[1].criterion_name = "Grammar and Spelling"
        /\ returned.Grammar.cs[1].score \in WholeScores
        /\ returned.Grammar.cs[1].feedback # <<>>
        /\ InSeq(returned.Grammar.cs[1], sub_scores_list)

\* the checker replied with a negative count and evaluate returned
C24_NegativeCountFaults ==
    /\ output # None
    /\ CheckerReplied
    /\ collab.check.issue_count < 0
    /\ returned.Grammar = Raise(UnboundFeedback)
    /\ Out.sub_scores[2].feedback =
           <<"Critical error in grammar/spelling scoring", ": ">> \o UnboundFeedback

-----------------------------------------------------------------------------
(* C25: a failed creation of the language tool is not cached               *)

CreationAttempted == Len(constructed') = Len(constructed) + 1
CreationFailed == CreationAttempted /\ constructed'[Len(constructed')].raised # None

\* the constructor raised: the shared tool stays unset and the call returns
\* the failure as one sentinel-prefixed issue with count 1
FailureReported ==
    CreationFailed =>
        /\ _tool = None /\ _tool' = None
        /\ thread'[1].pc = "idle"
        /\ thread'[1].reply.k = "reply"
        /\ thread'[1].reply.issue_count = 1
        /\ Len(thread'[1].reply.issues) = 1
        /\ StartsWithSentinel(thread'[1].reply.issues[1])
        /\ thread'[1].reply.issues[1] =
               SentinelMessage(constructed'[Len(constructed')].raised[1])

\* a call that finds the shared tool unset attempts the creation, whatever
\* happened in earlier calls; so while the tool is unset every call on
\* text has attempted one
CreationRetried ==
    /\ thread[1].pc = "test" /\ _tool = None => thread'[1].pc = "construct"
    /\ thread'[1].pc = "idle" /\ _tool' = None =>
          /\ Len(constructed') = thread'[1].call - thread'[1].blank
          /\ \A i \in 1..Len(constructed') : constructed'[i].raised # None

\* once set, the shared tool is the same instance ever after
ToolKept == _tool # None => _tool' = _tool

-----------------------------------------------------------------------------
(* C26: the missing-reference check comes before the empty-answer check    *)

\* the reference answer is absent, empty or whitespace-only
ReferenceMissing ==
    \/ grading_input.reference_answer = NoneText
    \/ /\ grading_input.reference_answer.k = "str"
       /\ \A i \in DOMAIN grading_input.reference_answer.v :
             IsSpace(grading_input.reference_answer.v[i])

AnswerEmpty == normalize_text(grading_input.student_answer).v = <<>>

\* C26: whenever the reference answer is absent, empty or whitespace-only,
\* and whether or not the student answer is empty, Relevance is 0.0 with
\* the 'Reference answer not provided' feedback, the embedding collaborator
\* is not called, and the condition is in errors with needs_teacher_review
\* true.
C26_MissingReferenceFirst ==
    ( output # None /\ ReferenceMissing ) =>
        /\ returned.Relevance = Return(CriterionScore("Relevance", 0, 500, FbReferenceMissing))
        /\ Out.sub_scores[1] = CriterionScore("Relevance", 0, 500, FbReferenceMissing)
        /\ collab.encode_calls = <<>>
        /\ collab.encode.k = "unused"
        /\ InErrors(FbReferenceMissing)
        /\ ~InErrors(FbRelevanceEmpty)
        /\ Out.needs_teacher_review

\* both conditions at once: a whitespace-only reference and an empty answer
C26_Witness ==
    /\ output # None
    /\ grading_input.reference_answer = Str(<<" ">>)
    /\ AnswerEmpty
    /\ Out.sub_scores[1].feedback = FbReferenceMissing
    /\ Out.needs_teacher_review

\* the reference missing and the answer given
C26_WitnessAnswerGiven ==
    /\ output # None
    /\ grading_input.reference_answer = Str(<<>>)
    /\ ~AnswerEmpty
    /\ Out.sub_scores[1].feedback = FbReferenceMissing

-----------------------------------------------------------------------------
(* C27: errors is a sub-list of what the feedback says                     *)

ErrorList == IF Out.errors = None THEN <<>> ELSE Out.errors[1]

\* positions a..b of text are one whole line of it
IsLine(text, a, b) ==
    /\ a <= b
    /\ \A i \in a..b : text[i] # "\n"
    /\ a = 1 \/ text[a - 1] = "\n"
    /\ b = Len(text) \/ text[b + 1] = "\n"

ShortLabels == {"Relevance: ", "Grammar/Spelling: ", "Word Count: "}

\* message is the text of a line of text: the whole line, or the line
\* after its criterion label
IsLineText(message, text) ==
    \E a \in 1..Len(text) : \E b \in a..Len(text) :
        /\ IsLine(text, a, b)
        /\ \/ SubSeq(text, a, b) = message
           \/ text[a] \in ShortLabels /\ SubSeq(text, a + 1, b) = message

\* what criterion X can have put into errors: its fault message, or the
\* feedback of the CriterionScore it returned
ErrorsFrom(X) ==
    IF Faulted(X) THEN {<<>>, <<FaultMessage(X)>>}
    ELSE IF Produced(X) THEN {<<>>, <<returned[X].cs[1].feedback>>}
    ELSE {<<>>}

\* C27: in every GradingOutput evaluate returns, each entry of errors is
\* the text of a line of automated_feedback, and errors has at most one
\* entry per criterion (so at most three), in the order Relevance,
\* Grammar, Word Count.
C27_ErrorsWithinFeedback ==
    output # None =>
        /\ \A i \in 1..Len(ErrorList) :
              /\ ErrorList[i] # <<>>
              /\ IsLineText(ErrorList[i], Out.automated_feedback)
        /\ Len(ErrorList) <= 3
        /\ \E r \in ErrorsFrom("Relevance") : \E g \in ErrorsFrom("Grammar") :
           \E w \in ErrorsFrom("WordCount") : ErrorList = r \o g \o w

\* all three criteria in errors: a missing reference, a checker failure
\* and a faulting word count scorer
C27_Witness ==
    /\ output # None
    /\ Len(ErrorList) = 3
    /\ ErrorList[1] = FbReferenceMissing
    /\ collab.check.k = "raise"
    /\ ErrorList[2] = FbCouldNotCheck(collab.check.msg)
    /\ Faulted("WordCount")
    /\ ErrorList[3] = FaultMessage("WordCount")

=============================================================================
